---- MODULE Spec2Model ----
(***************************************************************************)
(* Model of mesh/src/format/obj.rs: load_from_data converts the objects    *)
(* and geometries of a parsed Wavefront OBJ set into mesh builders, with   *)
(* vertex deduplication over (VTNIndex, handedness) keys, index remapping  *)
(* and tangent generation through the mikktspace Geometry callbacks.       *)
(*                                                                         *)
(* Numbers: coordinates are integers, or NaN.  f64 and f32 arithmetic is   *)
(* exact on the small integers the model uses and propagates NaN; the      *)
(* narrowing `as f32` is modelled by F32, which rounds integers above 2^24 *)
(* as IEEE single precision does.                                          *)
(* A normalized tangent is kept as numerators over a common denominator.   *)
(* Dense indices are 0-based as in the code; sequences are 1-based.        *)
(***************************************************************************)
EXTENDS Integers, Sequences, FiniteSets

VARIABLES
    obj_set,     \* the objects the outer loop has yielded so far, each with
                 \* the geometries its inner loop has yielded so far
    objects,     \* the Vec of (builder, material name) pairs built so far
    tris,        \* locals of the geometry being converted (lines 44-104)
    indices,
    positions,
    normals,
    tex_coords,
    reindex,
    obj_geom,    \* ObjGeometry.tangents, the accumulators
    face_vert,   \* number of face corners mikktspace has reported so far
    tangent,     \* the tangent mikktspace computed for the face it reports
    suitable,    \* what the last call of mikktspace::generate_tangents returned
    pc,          \* "loop" | "generate_tangents" | "done"
    ret          \* what load_from_data returned, or how it ended

vars == <<obj_set, objects, tris, indices, positions, normals, tex_coords,
          reindex, obj_geom, face_vert, tangent, suitable, pc, ret>>

(***************************************************************************)
(* Bounds of the model.                                                    *)
(***************************************************************************)
MaxGeometries == 2    \* geometries in the set, over all objects
MaxShapes == 2        \* shapes in the set, over all geometries

(***************************************************************************)
(* Option<T>, f64 arithmetic, and the f64 -> f32 narrowing.                *)
(***************************************************************************)
None == <<>>

Some(j) == <<j>>

\* f64::NAN, represented by an integer that no coordinate and no result of
\* the model's arithmetic takes.
NaN == 2147483647

FAdd(x, y) == IF x = NaN \/ y = NaN THEN NaN ELSE x + y

FSub(x, y) == IF x = NaN \/ y = NaN THEN NaN ELSE x - y

FMul(x, y) == IF x = NaN \/ y = NaN THEN NaN ELSE x * y

Abs(x) == IF x < 0 THEN -x ELSE x

F32Exact == 16777216

\* `x as f32`: every integer of magnitude up to 2^24 is a single-precision
\* value; from 2^24 to 2^25 only the even ones are, and an odd one rounds to
\* the neighbour with the even mantissa (round to nearest, ties to even).
F32(x) ==
    LET a == Abs(x)
        r == IF a <= F32Exact \/ a % 2 = 0 THEN a
             ELSE IF (a - 1) % 4 = 0 THEN a - 1 ELSE a + 1
    IN  IF x = NaN THEN NaN ELSE IF x < 0 THEN -r ELSE r

(***************************************************************************)
(* The input: raw arrays of an object, face references, shapes.            *)
(***************************************************************************)
\* obj::VTNIndex = (VertexIndex, Option<TextureIndex>, Option<NormalIndex>)
VTN(v, t, n) == <<v, t, n>>

Triangle(i1, i2, i3) == [primitive |-> "Triangle", idx |-> <<i1, i2, i3>>]

Line(i1, i2) == [primitive |-> "Line", idx |-> <<i1, i2>>]

\* The objects of the set, in order, with their raw arrays; the geometries
\* of an object are appended as the inner loop yields them.  The last
\* vertex of each object has a NaN component; the second normal has a
\* component that is no single-precision value; tex_vertices carry a third
\* component w, which the conversion drops.
RawObjects ==
    << [vertices |-> << <<0, 0, 0>>, <<1, 0, 0>>, <<0, 1, 0>>, <<NaN, 0, 0>> >>,
        normals |-> << <<0, 0, 1>>, <<0, 0, 16777217>> >>,
        tex_vertices |-> << <<0, 0, 0>>, <<1, 0, 7>> >>,
        geometry |-> <<>>],
       [vertices |-> << <<0, 0, 0>>, <<0, 2, 0>>, <<0, 0, 1>>, <<0, NaN, 0>> >>,
        normals |-> << <<1, 0, 0>>, <<0, -16777219, 0>> >>,
        tex_vertices |-> << <<0, 1, 0>>, <<1, 1, 3>> >>,
        geometry |-> <<>>] >>

\* The shapes a geometry of the model is made of: a triangle; the same
\* corners in reversed winding; a triangle with the NaN vertex, one corner
\* that is a corner of the first triangle and one that differs from it only
\* in its missing texcoord index; one triangle per raw array with an index
\* past its end; and a primitive that is no triangle.
ShapeSet ==
    { Triangle(VTN(0, Some(0), Some(0)), VTN(1, Some(1), Some(0)), VTN(2, None, Some(1))),
      Triangle(VTN(2, None, Some(1)), VTN(1, Some(1), Some(0)), VTN(0, Some(0), Some(0))),
      Triangle(VTN(0, None, Some(0)), VTN(0, Some(0), Some(0)), VTN(3, None, None)),
      Triangle(VTN(4, None, None), VTN(1, None, None), VTN(2, None, None)),
      Triangle(VTN(0, None, None), VTN(1, None, Some(2)), VTN(2, None, None)),
      Triangle(VTN(0, None, None), VTN(1, None, None), VTN(2, Some(2), None)),
      Line(VTN(0, None, None), VTN(1, None, None)) }

MaterialNames == {None, Some("mat")}

SeqsUpTo(S, n) == UNION {[1..k -> S] : k \in 0..n}

\* The tangents mikktspace may compute for a face: unit vectors with a
\* handedness sign in the fourth component.
EncodedTangents == { <<1, 0, 0, 1>>, <<-1, 0, 0, -1>> }

(***************************************************************************)
(* handedness (lines 132-149).                                             *)
(***************************************************************************)
\* f64::signum: 1.0 for a positive number and for +0.0, -1.0 for a negative
\* number, NaN for NaN.  A sum of squares is never negative and never -0.0.
Signum(x) == IF x = NaN THEN NaN ELSE IF x >= 0 THEN 1 ELSE -1

\* `as i8` of the f64 that signum returns: the cast saturates, NaN gives 0.
AsI8(x) == IF x = NaN THEN 0 ELSE x

handedness(a, b, c) ==
    LET d == <<FSub(b[1], a[1]), FSub(b[2], a[2]), FSub(b[3], a[3])>>
        e == <<FSub(c[1], a[1]), FSub(c[2], a[2]), FSub(c[3], a[3])>>
        cross == <<FSub(FMul(d[2], e[3]), FMul(d[3], e[2])),
                   FSub(FMul(d[3], e[1]), FMul(d[1], e[3])),
                   FSub(FMul(d[1], e[2]), FMul(d[2], e[1]))>>
    IN  AsI8(Signum(FAdd(FAdd(FMul(cross[1], cross[1]),
                              FMul(cross[2], cross[2])),
                         FMul(cross[3], cross[3]))))

(***************************************************************************)
(* The conversion of one geometry (lines 44-104).                          *)
(***************************************************************************)
IsTriangle(shape) == shape.primitive = "Triangle"

\* A key with a missing texcoord or normal index coerced to index 0.
KeyUnwrapOr0(i, h) ==
    <<<<i[1], Some(IF i[2] = None THEN 0 ELSE i[2][1]),
              Some(IF i[3] = None THEN 0 ELSE i[3][1])>>, h>>

\* A deduplication key, &(VTNIndex, i8) (line 54).
Key(i, h) == <<i, h>>

\* object.vertices[i.0] (lines 50-52, 65) panics past the end of the array.
VertexOutOfBounds(object, shape) ==
    \E c \in 1..3 : shape.idx[c][1] >= Len(object.vertices)

\* object.normals[j] (line 74) panics past the end of the array.
NormalOutOfBounds(object, shape) ==
    \E c \in 1..3 :
        /\ shape.idx[c][3] # None
        /\ shape.idx[c][3][1] >= Len(object.normals)

\* object.tex_vertices[j] (line 86) panics past the end of the array.
TexCoordOutOfBounds(object, shape) ==
    \E c \in 1..3 :
        /\ shape.idx[c][2] # None
        /\ shape.idx[c][2][1] >= Len(object.tex_vertices)

\* Whether the conversion of the geometry panics on an index.
IndexPanics(object, geometry) ==
    \E n \in 1..Len(geometry.shapes) :
        /\ IsTriangle(geometry.shapes[n])
        /\ \/ VertexOutOfBounds(object, geometry.shapes[n])
           \/ NormalOutOfBounds(object, geometry.shapes[n])
           \/ TexCoordOutOfBounds(object, geometry.shapes[n])

\* tris (lines 44-58): one triple of keys per Triangle shape, in shape
\* order; any other primitive yields nothing.
RECURSIVE Tris(_, _)
Tris(object, shapes) ==
    IF shapes = <<>> THEN <<>>
    ELSE LET shape == Head(shapes)
             i1 == shape.idx[1]
             i2 == shape.idx[2]
             i3 == shape.idx[3]
             h == handedness(object.vertices[i1[1] + 1],
                             object.vertices[i2[1] + 1],
                             object.vertices[i3[1] + 1])
         IN  (IF IsTriangle(shape)
              THEN << <<Key(i1, h), Key(i2, h), Key(i3, h)>> >>
              ELSE <<>>) \o Tris(object, Tail(shapes))

\* tris.iter().flatten()
RECURSIVE Flatten(_)
Flatten(ts) == IF ts = <<>> THEN <<>> ELSE Head(ts) \o Flatten(Tail(ts))

\* Ord of Option<usize>: None is below every Some, Some by value.
OptionLess(a, b) ==
    \/ a = None /\ b # None
    \/ a # None /\ b # None /\ a[1] < b[1]

\* Ord of (VTNIndex, i8): lexicographic over (v, t, n), then the i8.
KeyLess(k, l) ==
    \/ k[1][1] < l[1][1]
    \/ k[1][1] = l[1][1] /\ OptionLess(k[1][2], l[1][2])
    \/ k[1][1] = l[1][1] /\ k[1][2] = l[1][2] /\ OptionLess(k[1][3], l[1][3])
    \/ k[1] = l[1] /\ k[2] < l[2]

\* Iteration order of a BTreeSet of keys: ascending.
RECURSIVE Ascending(_)
Ascending(S) ==
    IF S = {} THEN <<>>
    ELSE LET m == CHOOSE k \in S : \A l \in S \ {k} : KeyLess(k, l)
         IN  <<m>> \o Ascending(S \ {m})

\* Keys in the order of their first occurrence, as a Vec with a `contains`
\* test would collect them.
RECURSIVE FirstOccurrence(_)
FirstOccurrence(ts) ==
    IF ts = <<>> THEN <<>>
    ELSE LET init == FirstOccurrence(SubSeq(ts, 1, Len(ts) - 1))
             k == ts[Len(ts)]
         IN  IF \E n \in 1..Len(init) : init[n] = k THEN init
             ELSE Append(init, k)

\* indices collected in first-occurrence order instead of key order.
IndicesFirstOccurrence(ts) == FirstOccurrence(Flatten(ts))

\* indices (line 60): the keys of all corners, collected into a BTreeSet.
Indices(ts) ==
    LET flat == Flatten(ts)
    IN  Ascending({flat[n] : n \in 1..Len(flat)})

\* positions (lines 62-68)
Positions(object, ks) ==
    [n \in 1..Len(ks) |->
        LET v == object.vertices[ks[n][1][1] + 1]
        IN  <<F32(v[1]), F32(v[2]), F32(v[3])>>]

\* normals with a missing normal index read as index 0.
NormalsUnwrapOr0(object, ks) ==
    [n \in 1..Len(ks) |->
        LET i == ks[n][1]
            v == object.normals[(IF i[3] # None THEN i[3][1] ELSE 0) + 1]
        IN  <<F32(v[1]), F32(v[2]), F32(v[3])>>]

\* normals (lines 70-80)
Normals(object, ks) ==
    [n \in 1..Len(ks) |->
        LET i == ks[n][1]
        IN  IF i[3] # None
            THEN LET v == object.normals[i[3][1] + 1]
                 IN  <<F32(v[1]), F32(v[2]), F32(v[3])>>
            ELSE <<0, 0, 0>>]

\* tex_coords (lines 82-92)
TexCoords(object, ks) ==
    [n \in 1..Len(ks) |->
        LET i == ks[n][1]
        IN  IF i[2] # None
            THEN LET v == object.tex_vertices[i[2][1] + 1]
                 IN  <<F32(v[1]), F32(v[2])>>
            ELSE <<0, 0>>]

\* index_map (lines 94-98): key -> its 0-based rank in indices.
IndexMap(ks) ==
    [k \in {ks[n] : n \in 1..Len(ks)} |->
        (CHOOSE n \in 1..Len(ks) : ks[n] = k) - 1]

\* reindex mapped over the set `indices` instead of over the corners.
ReindexOverIndices(ts, ks) ==
    [n \in 1..Len(ks) |-> IndexMap(ks)[ks[n]]]

\* reindex (lines 100-104)
Reindex(ts, ks) ==
    LET flat == Flatten(ts)
    IN  [n \in 1..Len(flat) |-> IndexMap(ks)[flat[n]]]

(***************************************************************************)
(* ObjGeometry (lines 153-227).                                            *)
(***************************************************************************)
\* One accumulator per entry of the index buffer instead of per position.
ObjGeometryNewPerIndex(ps, ixs) == [n \in 1..Len(ixs) |-> <<0, 0, 0, 1>>]

\* ObjGeometry::new (lines 162-175): one zero accumulator per position.
ObjGeometryNew(ps, ixs) == [n \in 1..Len(ps) |-> <<0, 0, 0, 1>>]

\* accumulate_tangent (lines 177-183); index is 0-based.
accumulate_tangent(tangents, index, other) ==
    [tangents EXCEPT ![index + 1] =
        <<@[1] + other[1], @[2] + other[2], @[3] + other[3], other[4]>>]

\* set_tangent_encoded (lines 219-226); n counts the face corners reported
\* before this one, face * 3 + vert.
set_tangent_encoded(tangents, ixs, n, t) ==
    accumulate_tangent(tangents, ixs[n + 1], t)

\* normalize_tangent (lines 185-188): [x / len, y / len, z / len, w] with
\* len = x*x + y*y + z*z, as numerators num over the denominator den.  A
\* den of 0 is the division 0.0 / 0.0.
normalize_tangent(t) ==
    LET len == t[1] * t[1] + t[2] * t[2] + t[3] * t[3]
    IN  [num |-> <<t[1], t[2], t[3]>>, den |-> len, w |-> t[4]]

\* get_tangents (lines 190-195)
get_tangents(tangents) ==
    [n \in 1..Len(tangents) |-> normalize_tangent(tangents[n])]

(***************************************************************************)
(* load_from_data (lines 26-130).                                          *)
(***************************************************************************)
RECURSIVE GeometryCount(_)
GeometryCount(os) ==
    IF os = <<>> THEN 0 ELSE Len(Head(os).geometry) + GeometryCount(Tail(os))

RECURSIVE ShapeSum(_)
ShapeSum(gs) ==
    IF gs = <<>> THEN 0 ELSE Len(Head(gs).shapes) + ShapeSum(Tail(gs))

RECURSIVE ShapeCount(_)
ShapeCount(os) ==
    IF os = <<>> THEN 0 ELSE ShapeSum(Head(os).geometry) + ShapeCount(Tail(os))

Geometries(maxShapes) ==
    [material_name : MaterialNames, shapes : SeqsUpTo(ShapeSet, maxShapes)]

Running == [kind |-> "Running", value |-> <<>>]

Panic == [kind |-> "Panic", value |-> <<>>]

Err == [kind |-> "Err", value |-> <<>>]

Ok(v) == [kind |-> "Ok", value |-> v]

NoLocals ==
    /\ tris' = <<>>
    /\ indices' = <<>>
    /\ positions' = <<>>
    /\ normals' = <<>>
    /\ tex_coords' = <<>>
    /\ reindex' = <<>>
    /\ obj_geom' = <<>>
    /\ face_vert' = 0
    /\ tangent' = <<>>

Init ==
    /\ obj_set = <<>>
    /\ objects = <<>>
    /\ tris = <<>>
    /\ indices = <<>>
    /\ positions = <<>>
    /\ normals = <<>>
    /\ tex_coords = <<>>
    /\ reindex = <<>>
    /\ obj_geom = <<>>
    /\ face_vert = 0
    /\ tangent = <<>>
    /\ suitable = TRUE
    /\ pc = "loop"
    /\ ret = Running

\* for object in obj_set.objects (line 35): the next object.
NextObject ==
    /\ pc = "loop"
    /\ Len(obj_set) < Len(RawObjects)
    /\ obj_set' = Append(obj_set, RawObjects[Len(obj_set) + 1])
    /\ UNCHANGED <<objects, tris, indices, positions, normals, tex_coords,
                   reindex, obj_geom, face_vert, tangent, suitable, pc, ret>>

\* No material name, whatever the geometry's.
MaterialNameNone(geometry) == None

\* The material name pushed with a builder (line 125).
MaterialName(geometry) == geometry.material_name

\* for geometry in &object.geometry (line 36), and the conversion of the
\* geometry up to the call of mikktspace (lines 37-107).  An index past the
\* end of a raw array panics and unwinds load_from_data.
BuildGeometry ==
    /\ pc = "loop"
    /\ obj_set # <<>>
    /\ GeometryCount(obj_set) < MaxGeometries
    /\ \E geometry \in Geometries(MaxShapes - ShapeCount(obj_set)) :
        LET o == Len(obj_set)
            object == [obj_set[o] EXCEPT !.geometry = Append(@, geometry)]
        IN  /\ obj_set' = [obj_set EXCEPT ![o] = object]
            /\ UNCHANGED suitable
            /\ IF IndexPanics(object, geometry)
               THEN /\ pc' = "done"
                    /\ ret' = Panic
                    /\ objects' = <<>>
                    /\ NoLocals
               ELSE LET ts == Tris(object, geometry.shapes)
                        ks == Indices(ts)
                        ps == Positions(object, ks)
                        ixs == Reindex(ts, ks)
                    IN  /\ tris' = ts
                        /\ indices' = ks
                        /\ positions' = ps
                        /\ normals' = Normals(object, ks)
                        /\ tex_coords' = TexCoords(object, ks)
                        /\ reindex' = ixs
                        /\ obj_geom' = ObjGeometryNew(ps, ixs)
                        /\ face_vert' = 0
                        /\ tangent' = <<>>
                        /\ pc' = "generate_tangents"
                        /\ UNCHANGED <<objects, ret>>

\* mikktspace reports the tangent of the next face corner through
\* set_tangent_encoded (lines 219-226), face by face and corner by corner.
\* In the model it picks one tangent per face, at the face's first corner,
\* and reports it for the three corners.
SetTangentEncoded ==
    /\ pc = "generate_tangents"
    /\ face_vert < Len(reindex)
    /\ \E t \in (IF face_vert % 3 = 0 THEN EncodedTangents ELSE {tangent}) :
        /\ obj_geom' = set_tangent_encoded(obj_geom, reindex, face_vert, t)
        /\ tangent' = t
    /\ face_vert' = face_vert + 1
    /\ UNCHANGED <<obj_set, objects, tris, indices, positions, normals,
                   tex_coords, reindex, suitable, pc, ret>>

\* generate_tangents returns false and the loop goes on to the next
\* geometry (`continue` in place of `return Err`).
GenerateTangentsFailsSkips ==
    /\ pc = "generate_tangents"
    /\ suitable' = FALSE
    /\ pc' = "loop"
    /\ NoLocals
    /\ UNCHANGED <<obj_set, objects, ret>>

\* mikktspace::generate_tangents returns false (lines 108-110): the load
\* returns the error and drops the builders built so far.
GenerateTangentsFails ==
    /\ pc = "generate_tangents"
    /\ suitable' = FALSE
    /\ pc' = "done"
    /\ ret' = Err
    /\ objects' = <<>>
    /\ NoLocals
    /\ UNCHANGED obj_set

\* mikktspace::generate_tangents returns true after the last face corner;
\* the arrays go to the builder and the pair is pushed (lines 111-125).
FinishGeometry ==
    /\ pc = "generate_tangents"
    /\ face_vert = Len(reindex)
    /\ suitable' = TRUE
    /\ LET object == obj_set[Len(obj_set)]
           geometry == object.geometry[Len(object.geometry)]
           tangents == get_tangents(obj_geom)
           builder == [vertices |-> <<positions, normals, tangents, tex_coords>>,
                       indices |-> reindex]
       IN  objects' = Append(objects, <<builder, MaterialName(geometry)>>)
    /\ pc' = "loop"
    /\ NoLocals
    /\ UNCHANGED <<obj_set, ret>>

\* Both loops are exhausted: Ok(objects) (lines 128-129).
ReturnOk ==
    /\ pc = "loop"
    /\ pc' = "done"
    /\ ret' = Ok(objects)
    /\ objects' = <<>>
    /\ UNCHANGED <<obj_set, tris, indices, positions, normals, tex_coords,
                   reindex, obj_geom, face_vert, tangent, suitable>>

Next ==
    \/ NextObject
    \/ BuildGeometry
    \/ SetTangentEncoded
    \/ GenerateTangentsFails
    \/ FinishGeometry
    \/ ReturnOk

Spec == Init /\ [][Next]_vars

(***************************************************************************)
(* Vocabulary of the properties: the source geometry of each built pair,   *)
(* and the face references of its triangle corners, read from the input.   *)
(***************************************************************************)
\* The pairs of a returned result.  The loops may end after any geometry
\* (ReturnOk is enabled whenever pc = "loop"), so every value objects ever
\* takes is the value of some returned result.
Built == IF ret.kind = "Ok" THEN ret.value ELSE <<>>

\* The geometries the loops have yielded, in object order and then geometry
\* order, each with its object.
RECURSIVE Sources(_)
Sources(os) ==
    IF os = <<>> THEN <<>>
    ELSE LET object == Head(os)
         IN  [g \in 1..Len(object.geometry) |->
                 [object |-> object, geometry |-> object.geometry[g]]]
             \o Sources(Tail(os))

TriangleShapes(geometry) == SelectSeq(geometry.shapes, IsTriangle)

\* The triangle corners of the shapes of an object, in source order: the
\* face reference of each, and the handedness value of its triangle.
RECURSIVE CornersOf(_, _)
CornersOf(object, shapes) ==
    IF shapes = <<>> THEN <<>>
    ELSE LET idx == Head(shapes).idx
             hand == handedness(object.vertices[idx[1][1] + 1],
                                object.vertices[idx[2][1] + 1],
                                object.vertices[idx[3][1] + 1])
         IN  (IF IsTriangle(Head(shapes))
              THEN <<[ref |-> idx[1], hand |-> hand],
                     [ref |-> idx[2], hand |-> hand],
                     [ref |-> idx[3], hand |-> hand]>>
              ELSE <<>>) \o CornersOf(object, Tail(shapes))

Corners(src) == CornersOf(src.object, src.geometry.shapes)

\* Two corners have the same key: the same position index, the same
\* texcoord index presence and value, the same normal index presence and
\* value, and the same handedness value.
SameKey(c, d) ==
    /\ c.ref[1] = d.ref[1]
    /\ (c.ref[2] = None) = (d.ref[2] = None)
    /\ (c.ref[2] # None /\ d.ref[2] # None) => c.ref[2][1] = d.ref[2][1]
    /\ (c.ref[3] = None) = (d.ref[3] = None)
    /\ (c.ref[3] # None /\ d.ref[3] # None) => c.ref[3][1] = d.ref[3][1]
    /\ c.hand = d.hand

\* The number of distinct keys among the corners cs.
NumKeys(cs) ==
    Cardinality({n \in 1..Len(cs) : \A m \in 1..(n - 1) : ~SameKey(cs[n], cs[m])})

\* The dense index of the key of corner n of cs: the number of distinct
\* keys of cs that are below it.
DenseIndex(cs, n) ==
    Cardinality({<<cs[m].ref, cs[m].hand>> : m \in
        {l \in 1..Len(cs) :
            KeyLess(<<cs[l].ref, cs[l].hand>>, <<cs[n].ref, cs[n].hand>>)}})

BuiltVertices(k, a) == Built[k][1].vertices[a]

BuiltIndices(k) == Built[k][1].indices

(***************************************************************************)
(* C1.  For every converted geometry the positions, normals, tangents and  *)
(* texture-coordinate arrays handed to the builder have the same length,   *)
(* the number of distinct keys referenced by its triangle corners.         *)
(***************************************************************************)
C1_ArraysAligned ==
    LET srcs == Sources(obj_set)
    IN  \A k \in 1..Len(Built) :
            LET keys == NumKeys(Corners(srcs[k]))
            IN  \A a \in 1..4 : Len(BuiltVertices(k, a)) = keys

\* A geometry was converted whose corners share keys: fewer vertices than
\* corners.
C1_Witness ==
    \E k \in 1..Len(Built) :
        /\ Len(BuiltVertices(k, 3)) > 0
        /\ Len(BuiltVertices(k, 3)) < Len(Corners(Sources(obj_set)[k]))

(***************************************************************************)
(* C2.  The index buffer has 3 entries per Triangle shape, none for another*)
(* shape, and entry 3*t + c is the dense index of the key of corner c of   *)
(* the t-th triangle, in source order.                                     *)
(***************************************************************************)
C2_IndexBuffer ==
    LET srcs == Sources(obj_set)
    IN  \A k \in 1..Len(Built) :
            LET cs == Corners(srcs[k])
                ixs == BuiltIndices(k)
            IN  /\ Len(ixs) = 3 * Len(TriangleShapes(srcs[k].geometry))
                /\ \A n \in 1..Len(cs) : ixs[n] = DenseIndex(cs, n)

\* A geometry was converted that holds a shape that is no triangle and a
\* triangle whose corners are not in ascending key order.
C2_Witness ==
    \E k \in 1..Len(Built) :
        LET src == Sources(obj_set)[k]
        IN  /\ Len(TriangleShapes(src.geometry)) < Len(src.geometry.shapes)
            /\ Len(Corners(src)) = 3
            /\ BuiltIndices(k) = <<2, 1, 0>>

RawTriple(v) == <<v[1], v[2], v[3]>>

RawPair(v) == <<v[1], v[2]>>

F32Triple(v) == <<F32(v[1]), F32(v[2]), F32(v[3])>>

F32Pair(v) == <<F32(v[1]), F32(v[2])>>

(***************************************************************************)
(* C3.  Every entry of the index buffer is a valid index into the vertex   *)
(* arrays, and the vertex there is the one the corner's face reference     *)
(* selects.  As claimed: the raw position, the raw normal or [0,0,0], the  *)
(* raw (u,v) or [0,0].                                                     *)
(***************************************************************************)
C3_RawAttributes ==
    LET srcs == Sources(obj_set)
    IN  \A k \in 1..Len(Built) :
            LET cs == Corners(srcs[k])
                object == srcs[k].object
                ixs == BuiltIndices(k)
            IN  \A n \in 1..Len(ixs) :
                    LET i == cs[n].ref
                        e == ixs[n] + 1
                    IN  /\ e \in 1..Len(BuiltVertices(k, 1))
                        /\ BuiltVertices(k, 1)[e] = RawTriple(object.vertices[i[1] + 1])
                        /\ BuiltVertices(k, 2)[e] =
                               IF i[3] = None THEN <<0, 0, 0>>
                               ELSE RawTriple(object.normals[i[3][1] + 1])
                        /\ BuiltVertices(k, 4)[e] =
                               IF i[2] = None THEN <<0, 0>>
                               ELSE RawPair(object.tex_vertices[i[2][1] + 1])

\* C3 as amended: the same, with every raw f64 component narrowed to f32.
C3_F32Attributes ==
    LET srcs == Sources(obj_set)
    IN  \A k \in 1..Len(Built) :
            LET cs == Corners(srcs[k])
                object == srcs[k].object
                ixs == BuiltIndices(k)
            IN  \A n \in 1..Len(ixs) :
                    LET i == cs[n].ref
                        e == ixs[n] + 1
                    IN  /\ e \in 1..Len(BuiltVertices(k, 1))
                        /\ BuiltVertices(k, 1)[e] = F32Triple(object.vertices[i[1] + 1])
                        /\ BuiltVertices(k, 2)[e] =
                               IF i[3] = None THEN <<0, 0, 0>>
                               ELSE F32Triple(object.normals[i[3][1] + 1])
                        /\ BuiltVertices(k, 4)[e] =
                               IF i[2] = None THEN <<0, 0>>
                               ELSE F32Pair(object.tex_vertices[i[2][1] + 1])

\* A geometry was converted with a corner that has no normal index, a
\* corner that has no texcoord index, and a corner whose raw normal is not
\* a single-precision value.
C3_Witness ==
    \E k \in 1..Len(Built) :
        LET src == Sources(obj_set)[k]
            cs == Corners(src)
        IN  /\ \E n \in 1..Len(cs) : cs[n].ref[3] = None
            /\ \E n \in 1..Len(cs) : cs[n].ref[2] = None
            /\ \E n \in 1..Len(cs) :
                   LET i == cs[n].ref
                   IN  /\ i[3] # None
                       /\ F32Triple(src.object.normals[i[3][1] + 1])
                              # RawTriple(src.object.normals[i[3][1] + 1])

(***************************************************************************)
(* C4.  Two corners of a geometry get the same dense index if and only if  *)
(* their keys are equal; a missing texcoord or normal index never equals a *)
(* present one, index 0 included.                                          *)
(***************************************************************************)
C4_SameIndexIffSameKey ==
    LET srcs == Sources(obj_set)
    IN  \A k \in 1..Len(Built) :
            LET cs == Corners(srcs[k])
                ixs == BuiltIndices(k)
            IN  \A n, m \in 1..Len(ixs) :
                    (ixs[n] = ixs[m]) = SameKey(cs[n], cs[m])

\* A geometry was converted with two corners that differ only in that one
\* has texcoord index 0 and the other has none, and with two distinct
\* corners that share a key.
C4_Witness ==
    \E k \in 1..Len(Built) :
        LET cs == Corners(Sources(obj_set)[k])
            ixs == BuiltIndices(k)
        IN  /\ \E n, m \in 1..Len(cs) :
                   /\ cs[n].ref[1] = cs[m].ref[1]
                   /\ cs[n].ref[3] = cs[m].ref[3]
                   /\ cs[n].ref[2] = None
                   /\ cs[m].ref[2] = Some(0)
                   /\ ixs[n] # ixs[m]
            /\ \E n, m \in 1..Len(cs) : n # m /\ ixs[n] = ixs[m]

\* The positions of a triangle are finite and span a triangle of non-zero
\* area, so that reversing its corners reverses its orientation.
HasArea(object, shape) ==
    LET a == object.vertices[shape.idx[1][1] + 1]
        b == object.vertices[shape.idx[2][1] + 1]
        c == object.vertices[shape.idx[3][1] + 1]
        d == <<b[1] - a[1], b[2] - a[2], b[3] - a[3]>>
        e == <<c[1] - a[1], c[2] - a[2], c[3] - a[3]>>
    IN  /\ \A v \in {a, b, c} : \A x \in 1..3 : v[x] # NaN
        /\ <<d[2] * e[3] - d[3] * e[2], d[3] * e[1] - d[1] * e[3],
              d[1] * e[2] - d[2] * e[1]>> # <<0, 0, 0>>

(***************************************************************************)
(* C5.  Winding separation: two triangles of a geometry with the same      *)
(* three face references in reversed order, hence of opposite orientation, *)
(* use disjoint sets of dense indices.                                     *)
(***************************************************************************)
C5_WindingSeparation ==
    \A k \in 1..Len(Built) :
        LET src == Sources(obj_set)[k]
            ts == TriangleShapes(src.geometry)
            used(t) == {BuiltIndices(k)[3 * (t - 1) + c] : c \in 1..3}
        IN  \A t, u \in 1..Len(ts) :
                (/\ ts[u].idx = <<ts[t].idx[3], ts[t].idx[2], ts[t].idx[1]>>
                 /\ HasArea(src.object, ts[t]))
                    => used(t) \cap used(u) = {}

RECURSIVE GeometriesBefore(_, _)
GeometriesBefore(os, o) ==
    IF o = 1 THEN 0
    ELSE GeometriesBefore(os, o - 1) + Len(os[o - 1].geometry)

(***************************************************************************)
(* C6.  On success the load returns one pair per source geometry of every  *)
(* object, in object order and then geometry order, each with the          *)
(* geometry's material name; one object with one geometry gives one pair.  *)
(***************************************************************************)
C6_OnePairPerGeometry ==
    ret.kind = "Ok" =>
        /\ Len(ret.value) = GeometriesBefore(obj_set, Len(obj_set) + 1)
        /\ \A o \in 1..Len(obj_set) :
               \A g \in 1..Len(obj_set[o].geometry) :
                   ret.value[GeometriesBefore(obj_set, o) + g][2]
                       = obj_set[o].geometry[g].material_name
        /\ (Len(obj_set) = 1 /\ Len(obj_set[1].geometry) = 1)
               => Len(ret.value) = 1

\* The load returned Ok for two objects with a geometry of one triangle
\* each, the first with a material name, the second without.
C6_Witness ==
    /\ ret.kind = "Ok"
    /\ Len(obj_set) = 2
    /\ Len(obj_set[1].geometry) = 1
    /\ Len(obj_set[2].geometry) = 1
    /\ obj_set[1].geometry[1].material_name # None
    /\ obj_set[2].geometry[1].material_name = None
    /\ TriangleShapes(obj_set[1].geometry[1]) # <<>>
    /\ TriangleShapes(obj_set[2].geometry[1]) # <<>>

HasOutOfRangeIndex ==
    \E k \in 1..Len(Sources(obj_set)) :
        LET src == Sources(obj_set)[k]
            ts == TriangleShapes(src.geometry)
        IN  \E t \in 1..Len(ts), c \in 1..3 :
                LET i == ts[t].idx[c]
                IN  \/ i[1] >= Len(src.object.vertices)
                    \/ i[2] # None /\ i[2][1] >= Len(src.object.tex_vertices)
                    \/ i[3] # None /\ i[3][1] >= Len(src.object.normals)

(***************************************************************************)
(* C7.  A triangle corner that references a position, normal or texcoord   *)
(* index past the end of its raw array makes the load return an error      *)
(* value; it does not panic.                                               *)
(***************************************************************************)
C7_OutOfRangeIsError ==
    HasOutOfRangeIndex => (ret.kind = "Err" /\ ret.value = <<>>)

(***************************************************************************)
(* C8.  As claimed: a tangent-generation failure yields no mesh for its    *)
(* geometry and does not discard its siblings: a geometry with triangles   *)
(* that was converted before the failing one keeps its pair in what the    *)
(* load delivers.                                                          *)
(***************************************************************************)
C8_FailureIsolated ==
    ~suitable =>
        LET srcs == Sources(obj_set)
            delivered == IF pc = "done" THEN ret.value ELSE objects
        IN  /\ Len(delivered) < Len(srcs)
            /\ \A k \in 1..(Len(srcs) - 1) :
                   TriangleShapes(srcs[k].geometry) # <<>> => k <= Len(delivered)

\* C8 as amended: when the tangent algorithm reports a geometry unsuitable
\* the load ends at once with an error, and no mesh data is returned for
\* any geometry; no tangents are kept for the failing one.
C8_FailureAbortsLoad ==
    ~suitable =>
        /\ pc = "done"
        /\ ret = Err
        /\ objects = <<>>
        /\ obj_geom = <<>>

\* Tangent generation failed for a geometry after a sibling with triangles
\* was converted.
C8_Witness ==
    /\ ~suitable
    /\ GeometriesBefore(obj_set, Len(obj_set) + 1) >= 2
    /\ TriangleShapes(Sources(obj_set)[1].geometry) # <<>>

(***************************************************************************)
(* C9.  Every returned tangent whose accumulated first three components    *)
(* are not all zero has first three components of Euclidean length 1 (the  *)
(* accumulator divided by its length), the fourth carried through.         *)
(***************************************************************************)
C9_TangentUnitLength ==
    \A k \in 1..Len(Built) :
        \A v \in 1..Len(BuiltVertices(k, 3)) :
            LET t == BuiltVertices(k, 3)[v]
                sq == t.num[1] * t.num[1] + t.num[2] * t.num[2] + t.num[3] * t.num[3]
            IN  t.num # <<0, 0, 0>> =>
                    /\ t.den > 0
                    /\ sq = t.den * t.den
                    /\ t.w \in {1, -1}

Permutations(n) ==
    {p \in [1..n -> 1..n] : \A a, b \in 1..n : p[a] = p[b] => a = b}

\* The triple of the index buffer ixs that belongs to the shape at place n.
TripleOfShape(shapes, ixs, n) ==
    LET t == Len(SelectSeq(SubSeq(shapes, 1, n), IsTriangle))
    IN  <<ixs[3 * t - 2], ixs[3 * t - 1], ixs[3 * t]>>

(***************************************************************************)
(* C10.  Dense indices follow ascending key order, and the order of the    *)
(* triangle shapes does not matter: permuting them leaves positions,       *)
(* normals and texcoords unchanged and permutes the triples of the index   *)
(* buffer in the same way.                                                 *)
(***************************************************************************)
C10_SortedAndOrderIndependent ==
    (pc = "generate_tangents" /\ face_vert = 0) =>
        LET object == obj_set[Len(obj_set)]
            shapes == object.geometry[Len(object.geometry)].shapes
        IN  /\ \A n, m \in 1..Len(indices) : n < m => KeyLess(indices[n], indices[m])
            /\ \A p \in Permutations(Len(shapes)) :
                   LET permuted == [n \in 1..Len(shapes) |-> shapes[p[n]]]
                       ks == Indices(Tris(object, permuted))
                       ixs == Reindex(Tris(object, permuted), ks)
                   IN  /\ Positions(object, ks) = positions
                       /\ Normals(object, ks) = normals
                       /\ TexCoords(object, ks) = tex_coords
                       /\ \A n \in 1..Len(shapes) :
                              IsTriangle(permuted[n]) =>
                                  TripleOfShape(permuted, ixs, n)
                                      = TripleOfShape(shapes, reindex, p[n])

\* A geometry of two different triangles was converted, the first of which
\* lists its corners in descending key order.
C10_Witness ==
    /\ pc = "generate_tangents"
    /\ face_vert = 0
    /\ Len(tris) = 2
    /\ tris[1] # tris[2]
    /\ KeyLess(tris[1][3], tris[1][1])
    /\ reindex[1] > reindex[3]

====
